---- MODULE Spec2Model ----
(***************************************************************************)
(* Model of garbled-circuit.py: a single-process simulation of Yao's       *)
(* garbled circuits (wire labels, garbled gate tables, trial-decryption    *)
(* evaluation) wired into a 3-bit ripple-carry adder.                      *)
(*                                                                         *)
(* Three specifications share the operators below.                         *)
(*   Spec      the process: circuits are constructed one after another     *)
(*             from a driver's inputs and evaluated gate by gate;          *)
(*             randomness comes from the process-wide generator of the     *)
(*             random module, whose seed is unknown.                       *)
(*   SpecAdder one circuit, constructed from every pair of 3-element       *)
(*             inputs, evaluated gate by gate.                             *)
(*   SpecGate  one gate on three fresh wires, on which Gate.evaluate is    *)
(*             called directly with valid and with foreign labels.         *)
(*                                                                         *)
(* Modelling assumptions, stated once:                                     *)
(*   - labels are LabelBits wide instead of 64 bits;                       *)
(*   - SHA-256 is modelled as collision free on the bounded domain and as  *)
(*     wider than a label: hash_value is an injective encoding of          *)
(*     (k1, k2, gate_id) in the digest's high part, plus a low part that   *)
(*     masks the label;                                                    *)
(*   - the Mersenne Twister behind random.getrandbits / random.shuffle is  *)
(*     a small linear congruential generator with an arbitrary seed.       *)
(***************************************************************************)
EXTENDS Integers, Sequences, FiniteSets, TLC

VARIABLES
    gate_id_counter,  \* module global gate_id_counter
    rng,              \* state of the random module's hidden generator
    wires,            \* self.wires: name -> Wire, of the circuit last constructed
    gates,            \* self.gates: the ordered gate list of that circuit
    a_bits,           \* arguments of the last constructor call
    b_bits,
    error,            \* "none", or the exception the last constructor call raised
    nbuilt,           \* number of constructor calls made so far
    issued,           \* every gate id handed out so far, in order
    pc,               \* 0: no evaluate() running; i: about to handle gates[i]
    failure,          \* failure reported by the running / last evaluate() call
    output,           \* value returned by the last evaluate() call
    nevals,           \* evaluate() calls made on the current circuit
    label_a,          \* arguments of the last direct Gate.evaluate call
    label_b,
    ret               \* value returned by the last direct Gate.evaluate call

vars == <<gate_id_counter, rng, wires, gates, a_bits, b_bits, error, nbuilt,
          issued, pc, failure, output, nevals, label_a, label_b, ret>>

-----------------------------------------------------------------------------
(* Bounds *)

LabelBits == 4
NumSeeds == 6
NumGateSeeds == 64
MaxCircuits == 2
MaxEvals == 2

-----------------------------------------------------------------------------
(* Values *)

None == -1

NoOutput == <<>>

EmptyWires == [n \in {} |-> None]

RECURSIVE Pow2(_)
Pow2(n) == IF n = 0 THEN 1 ELSE 2 * Pow2(n - 1)

LabelMod == Pow2(LabelBits)

RngMod == Pow2(LabelBits + 4)

GateIdSpace == (12 * MaxCircuits) + 1

RECURSIVE BitXor(_, _)
BitXor(x, y) ==
    IF x = 0 THEN y
    ELSE IF y = 0 THEN x
    ELSE (((x % 2) + (y % 2)) % 2) + (2 * BitXor(x \div 2, y \div 2))

-----------------------------------------------------------------------------
(* Gate-id counter *)

get_next_gate_id_stuck(counter) ==
    [gate_id |-> counter, counter |-> counter]

get_next_gate_id(counter) ==
    [gate_id |-> counter, counter |-> counter + 1]

-----------------------------------------------------------------------------
(* Label pad *)

hash_value_drops_k2(k1, k2, gate_id) ==
    ((((k1 * LabelMod) + k1) * GateIdSpace) + gate_id) * LabelMod
        + (((7 * k1) + (3 * k1) + (5 * gate_id) + 1) % LabelMod)

hash_value(k1, k2, gate_id) ==
    ((((k1 * LabelMod) + k2) * GateIdSpace) + gate_id) * LabelMod
        + (((7 * k1) + (3 * k2) + (5 * gate_id) + 1) % LabelMod)

encrypt(key1, key2, gate_id, out_label) ==
    BitXor(out_label, hash_value(key1, key2, gate_id))

decrypt(key1, key2, gate_id, ciphertext) ==
    BitXor(ciphertext, hash_value(key1, key2, gate_id))

-----------------------------------------------------------------------------
(* Random source *)

rng_next(r) == ((37 * r) + 11) % RngMod

getrandbits(k, r) ==
    LET r2 == rng_next(r)
    IN  [value |-> r2 \div (RngMod \div Pow2(k)), rng |-> r2]

RECURSIVE bit_length(_)
bit_length(n) == IF n = 0 THEN 0 ELSE 1 + bit_length(n \div 2)

RECURSIVE randbelow(_, _)
randbelow(n, r) ==
    LET d == getrandbits(bit_length(n), r)
    IN  IF d.value >= n THEN randbelow(n, d.rng) ELSE d

Swap(x, i, j) == [x EXCEPT ![i] = x[j], ![j] = x[i]]

RECURSIVE shuffle_from(_, _, _)
shuffle_from(x, i, r) ==
    IF i < 2 THEN [seq |-> x, rng |-> r]
    ELSE LET d == randbelow(i, r)
         IN  shuffle_from(Swap(x, i, d.value + 1), i - 1, d.rng)

shuffle(x, r) == shuffle_from(x, Len(x), r)

-----------------------------------------------------------------------------
(* Wire *)

Wire(name, value, l0, l1) ==
    [name |-> name,
     labels |-> [b \in {0, 1} |-> IF b = 0 THEN l0 ELSE l1],
     value |-> value,
     evaluated_label |-> None]

set_value(w, value) ==
    [w EXCEPT !.value = value, !.evaluated_label = w.labels[value]]

get_bit_from_label(w, label) ==
    IF w.labels[0] = label THEN 0
    ELSE IF w.labels[1] = label THEN 1
    ELSE None

-----------------------------------------------------------------------------
(* Gate *)

xor_gate(a, b) == BitXor(a, b)

and_gate(a, b) == a * b

or_gate(a, b) == IF a + b > 0 THEN 1 ELSE 0

func(gate_type, a, b) ==
    CASE gate_type = "XOR" -> xor_gate(a, b)
      [] gate_type = "AND" -> and_gate(a, b)
      [] gate_type = "OR" -> or_gate(a, b)

Combinations == <<<<0, 0>>, <<0, 1>>, <<1, 0>>, <<1, 1>>>>

garble(ws, g, order) ==
    LET row(i) ==
            LET a == Combinations[i][1]
                b == Combinations[i][2]
                out_bit == func(g.func, a, b)
                key_a == ws[g.input_wire1].labels[a]
                key_b == ws[g.input_wire2].labels[b]
                out_label == ws[g.output_wire].labels[out_bit]
            IN  encrypt(key_a, key_b, g.gate_id, out_label)
    IN  [i \in 1..4 |-> row(order[i])]

Gate(ws, in1, in2, out, gate_type, counter, order) ==
    LET id == get_next_gate_id(counter)
        g == [input_wire1 |-> in1, input_wire2 |-> in2, output_wire |-> out,
              func |-> gate_type, gate_id |-> id.gate_id,
              gate_type |-> gate_type, garbled_table |-> <<>>]
    IN  [gate |-> [g EXCEPT !.garbled_table = garble(ws, g, order)],
         counter |-> id.counter]

Gate_evaluate_consume(ws, g, la, lb) ==
    LET out == ws[g.output_wire]
        cand(i) == decrypt(la, lb, g.gate_id, g.garbled_table[i])
        hits == {i \in 1..Len(g.garbled_table) :
                    cand(i) = out.labels[0] \/ cand(i) = out.labels[1]}
    IN  IF hits = {} THEN [ret |-> None, wires |-> ws]
        ELSE LET first == CHOOSE i \in hits : \A j \in hits : i <= j
             IN  [ret |-> cand(first),
                  wires |-> [ws EXCEPT
                      ![g.output_wire].evaluated_label = cand(first),
                      ![g.input_wire1].evaluated_label = None]]

Gate_evaluate_reset(ws, g, la, lb) ==
    LET out == ws[g.output_wire]
        cand(i) == decrypt(la, lb, g.gate_id, g.garbled_table[i])
        hits == {i \in 1..Len(g.garbled_table) :
                    cand(i) = out.labels[0] \/ cand(i) = out.labels[1]}
    IN  IF hits = {}
        THEN [ret |-> None,
              wires |-> [ws EXCEPT ![g.output_wire].evaluated_label = None]]
        ELSE LET first == CHOOSE i \in hits : \A j \in hits : i <= j
             IN  [ret |-> cand(first),
                  wires |-> [ws EXCEPT
                      ![g.output_wire].evaluated_label = cand(first)]]

Gate_evaluate(ws, g, la, lb) ==
    LET out == ws[g.output_wire]
        cand(i) == decrypt(la, lb, g.gate_id, g.garbled_table[i])
        hits == {i \in 1..Len(g.garbled_table) :
                    cand(i) = out.labels[0] \/ cand(i) = out.labels[1]}
    IN  IF hits = {} THEN [ret |-> None, wires |-> ws]
        ELSE LET first == CHOOSE i \in hits : \A j \in hits : i <= j
             IN  [ret |-> cand(first),
                  wires |-> [ws EXCEPT
                      ![g.output_wire].evaluated_label = cand(first)]]

-----------------------------------------------------------------------------
(* GarbledFullAdderCircuit *)

InputNames == <<"a0", "a1", "a2", "b0", "b1", "b2">>

AdderNetlist ==
    << [in1 |-> "a0", in2 |-> "b0", out |-> "sum0", type |-> "XOR"],
       [in1 |-> "a0", in2 |-> "b0", out |-> "carry0", type |-> "AND"],
       [in1 |-> "a1", in2 |-> "b1", out |-> "temp1", type |-> "XOR"],
       [in1 |-> "temp1", in2 |-> "carry0", out |-> "sum1", type |-> "XOR"],
       [in1 |-> "a1", in2 |-> "b1", out |-> "and1", type |-> "AND"],
       [in1 |-> "temp1", in2 |-> "carry0", out |-> "and2", type |-> "AND"],
       [in1 |-> "and1", in2 |-> "and2", out |-> "carry1", type |-> "OR"],
       [in1 |-> "a2", in2 |-> "b2", out |-> "temp2", type |-> "XOR"],
       [in1 |-> "temp2", in2 |-> "carry1", out |-> "sum2", type |-> "XOR"],
       [in1 |-> "a2", in2 |-> "b2", out |-> "and3", type |-> "AND"],
       [in1 |-> "temp2", in2 |-> "carry1", out |-> "and4", type |-> "AND"],
       [in1 |-> "and3", in2 |-> "and4", out |-> "carry2", type |-> "OR"] >>

full_sum_wires == <<"sum0", "sum1", "sum2", "carry2">>

result_wires == <<"sum1", "sum2", "carry2">>

\* st is the construction state [wires, gates, counter, rng].
new_wire(st, name, value) ==
    LET d0 == getrandbits(LabelBits, st.rng)
        d1 == getrandbits(LabelBits, d0.rng)
        wire == Wire(name, value, d0.value, d1.value)
    IN  [st EXCEPT
            !.wires = (name :> (IF value # None THEN set_value(wire, value)
                                ELSE wire)) @@ st.wires,
            !.rng = d1.rng]

RECURSIVE build_inputs(_, _, _)
build_inputs(st, bits, i) ==
    IF i > Len(InputNames) THEN st
    ELSE build_inputs(new_wire(st, InputNames[i], bits[i]), bits, i + 1)

RECURSIVE build_gates(_, _)
build_gates(st, i) ==
    IF i > Len(AdderNetlist) THEN st
    ELSE LET e == AdderNetlist[i]
             s1 == new_wire(st, e.out, None)
             sh == shuffle(<<1, 2, 3, 4>>, s1.rng)
             c == Gate(s1.wires, e.in1, e.in2, e.out, e.type, s1.counter, sh.seq)
         IN  build_gates([s1 EXCEPT !.gates = Append(s1.gates, c.gate),
                                    !.counter = c.counter,
                                    !.rng = sh.rng], i + 1)

build_circuit(a, b, counter, r) ==
    build_gates(
        build_inputs([wires |-> EmptyWires, gates |-> <<>>,
                      counter |-> counter, rng |-> r], a \o b, 1), 1)

Pad3(s) == [i \in 1..3 |-> IF i <= Len(s) THEN s[i] ELSE None]

GarbledFullAdderCircuit_late_check(a, b, counter, r) ==
    LET st == build_circuit(Pad3(a), Pad3(b), counter, r)
    IN  [error |-> IF Len(a) # 3 \/ Len(b) # 3 THEN "ValueError" ELSE "none",
         wires |-> st.wires, gates |-> st.gates,
         counter |-> st.counter, rng |-> st.rng]

GarbledFullAdderCircuit(a, b, counter, r) ==
    IF Len(a) # 3 \/ Len(b) # 3
    THEN [error |-> "ValueError", wires |-> EmptyWires, gates |-> <<>>,
          counter |-> counter, rng |-> r]
    ELSE LET st == build_circuit(a, b, counter, r)
         IN  [error |-> "none", wires |-> st.wires, gates |-> st.gates,
              counter |-> st.counter, rng |-> st.rng]

\* One iteration of the loop of evaluate(): [wires, failure, aborted].
evaluate_gate_continue(ws, g) ==
    LET la == ws[g.input_wire1].evaluated_label
        lb == ws[g.input_wire2].evaluated_label
    IN  IF la = None \/ lb = None
        THEN [wires |-> ws, failure |-> "MissingInputLabel", aborted |-> FALSE]
        ELSE LET e == Gate_evaluate(ws, g, la, lb)
             IN  [wires |-> e.wires,
                  failure |-> IF e.ret = None THEN "GarbleMismatch" ELSE "none",
                  aborted |-> FALSE]

evaluate_gate(ws, g) ==
    LET la == ws[g.input_wire1].evaluated_label
        lb == ws[g.input_wire2].evaluated_label
    IN  IF la = None \/ lb = None
        THEN [wires |-> ws, failure |-> "MissingInputLabel", aborted |-> TRUE]
        ELSE LET e == Gate_evaluate(ws, g, la, lb)
             IN  [wires |-> e.wires,
                  failure |-> IF e.ret = None THEN "GarbleMismatch" ELSE "none",
                  aborted |-> FALSE]

\* The loop of evaluate() visits the gates in list order.
gate_at_reversed(gs, i) == gs[Len(gs) + 1 - i]

gate_at(gs, i) == gs[i]

decode(ws, names) ==
    [i \in 1..Len(names) |->
        get_bit_from_label(ws[names[i]], ws[names[i]].evaluated_label)]

-----------------------------------------------------------------------------
(* The process: construct circuits, evaluate them *)

BitVals == {0, 1, None}

\* The demo's operands, an operand with an unset bit, a short and a long one.
DriverInputs ==
    {<<1, 0, 1>>, <<1, 0, 0>>, <<1, None, 0>>, <<1, 0>>, <<1, 0, 1, 1>>}

Init ==
    /\ gate_id_counter = 0
    /\ rng \in 0..(NumSeeds - 1)
    /\ wires = EmptyWires
    /\ gates = <<>>
    /\ a_bits = <<>>
    /\ b_bits = <<>>
    /\ error = "none"
    /\ nbuilt = 0
    /\ issued = <<>>
    /\ pc = 0
    /\ failure = "none"
    /\ output = NoOutput
    /\ nevals = 0
    /\ label_a = None
    /\ label_b = None
    /\ ret = None

Construct(a, b) ==
    /\ pc = 0
    /\ nbuilt < MaxCircuits
    /\ \E c \in {GarbledFullAdderCircuit(a, b, gate_id_counter, rng)} :
           /\ error' = c.error
           /\ wires' = c.wires
           /\ gates' = c.gates
           /\ gate_id_counter' = c.counter
           /\ rng' = c.rng
           /\ issued' = issued \o [i \in 1..Len(c.gates) |-> c.gates[i].gate_id]
    /\ a_bits' = a
    /\ b_bits' = b
    /\ nbuilt' = nbuilt + 1
    /\ failure' = "none"
    /\ output' = NoOutput
    /\ nevals' = 0
    /\ UNCHANGED <<pc, label_a, label_b, ret>>

EvaluateCall ==
    /\ pc = 0
    /\ nbuilt > 0
    /\ error = "none"
    /\ nevals < MaxEvals
    /\ pc' = 1
    /\ nevals' = nevals + 1
    /\ failure' = "none"
    /\ output' = NoOutput
    /\ UNCHANGED <<gate_id_counter, rng, wires, gates, a_bits, b_bits, error,
                   nbuilt, issued, label_a, label_b, ret>>

EvaluateGate ==
    /\ pc \in 1..Len(gates)
    /\ \E s \in {evaluate_gate(wires, gate_at(gates, pc))} :
           /\ wires' = s.wires
           /\ failure' = IF s.failure # "none" THEN s.failure ELSE failure
           /\ pc' = IF s.aborted THEN 0 ELSE pc + 1
    /\ UNCHANGED <<gate_id_counter, rng, gates, a_bits, b_bits, error, nbuilt,
                   issued, output, nevals, label_a, label_b, ret>>

EvaluateOutput ==
    /\ pc = Len(gates) + 1
    /\ output' = decode(wires, result_wires)
    /\ pc' = 0
    /\ UNCHANGED <<gate_id_counter, rng, wires, gates, a_bits, b_bits, error,
                   nbuilt, issued, failure, nevals, label_a, label_b, ret>>

Next ==
    \/ \E a \in DriverInputs, b \in DriverInputs : Construct(a, b)
    \/ EvaluateCall
    \/ EvaluateGate
    \/ EvaluateOutput

Spec == Init /\ [][Next]_vars

-----------------------------------------------------------------------------
(* One adder circuit, from every pair of 3-element inputs *)

AdderInputs == [1..3 -> BitVals]

InitAdder ==
    /\ \E seed \in 0..(NumSeeds - 1), a \in AdderInputs, b \in AdderInputs :
          \E c \in {GarbledFullAdderCircuit(a, b, 0, seed)} :
              /\ error = c.error
              /\ wires = c.wires
              /\ gates = c.gates
              /\ gate_id_counter = c.counter
              /\ rng = c.rng
              /\ issued = [i \in 1..Len(c.gates) |-> c.gates[i].gate_id]
              /\ a_bits = a
              /\ b_bits = b
    /\ nbuilt = 1
    /\ pc = 0
    /\ failure = "none"
    /\ output = NoOutput
    /\ nevals = 0
    /\ label_a = None
    /\ label_b = None
    /\ ret = None

NextAdder ==
    \/ EvaluateCall
    \/ EvaluateGate
    \/ EvaluateOutput

SpecAdder == InitAdder /\ [][NextAdder]_vars

-----------------------------------------------------------------------------
(* One gate on three fresh wires, on which Gate.evaluate is called directly *)

GateTypes == {"XOR", "AND", "OR"}

GateWireNames == <<"in1", "in2", "out">>

RECURSIVE gate_wires(_, _)
gate_wires(st, i) ==
    IF i > Len(GateWireNames) THEN st
    ELSE gate_wires(new_wire(st, GateWireNames[i], None), i + 1)

one_gate(gate_type, counter, r) ==
    LET st == gate_wires([wires |-> EmptyWires, gates |-> <<>>,
                          counter |-> counter, rng |-> r], 1)
        sh == shuffle(<<1, 2, 3, 4>>, st.rng)
        c == Gate(st.wires, "in1", "in2", "out", gate_type, counter, sh.seq)
    IN  [wires |-> st.wires, gates |-> <<c.gate>>, counter |-> c.counter,
         rng |-> sh.rng]

\* The labels a caller passes for wire n: its two labels, the smallest and
\* the largest label value that is not a label of n.
Foreign(n) ==
    {l \in 0..(LabelMod - 1) :
        l \notin {wires[n].labels[0], wires[n].labels[1]}}

CallLabels(n) ==
    {wires[n].labels[0], wires[n].labels[1]}
        \cup {l \in Foreign(n) : \A m \in Foreign(n) : l <= m}
        \cup {l \in Foreign(n) : \A m \in Foreign(n) : l >= m}

InitGate ==
    /\ \E seed \in 0..(NumGateSeeds - 1), t \in GateTypes :
          \E c \in {one_gate(t, 0, seed)} :
              /\ wires = c.wires
              /\ gates = c.gates
              /\ gate_id_counter = c.counter
              /\ rng = c.rng
              /\ issued = <<c.gates[1].gate_id>>
    /\ a_bits = <<>>
    /\ b_bits = <<>>
    /\ error = "none"
    /\ nbuilt = 0
    /\ pc = 0
    /\ failure = "none"
    /\ output = NoOutput
    /\ nevals = 0
    /\ label_a = None
    /\ label_b = None
    /\ ret = None

GateEvaluateCall(la, lb) ==
    /\ \E e \in {Gate_evaluate(wires, gates[1], la, lb)} :
           /\ wires' = e.wires
           /\ ret' = e.ret
    /\ label_a' = la
    /\ label_b' = lb
    /\ UNCHANGED <<gate_id_counter, rng, gates, a_bits, b_bits, error, nbuilt,
                   issued, pc, failure, output, nevals>>

NextGate ==
    \E la \in CallLabels("in1"), lb \in CallLabels("in2") :
        GateEvaluateCall(la, lb)

SpecGate == InitGate /\ [][NextGate]_vars

-----------------------------------------------------------------------------
(* Claims *)

RECURSIVE bits_to_int(_)
bits_to_int(bits) ==
    IF bits = <<>> THEN 0 ELSE Head(bits) + (2 * bits_to_int(Tail(bits)))

ToBits(n, k) == [i \in 1..k |-> (n \div Pow2(i - 1)) % 2]

InputsAreBits ==
    /\ Len(a_bits) = 3
    /\ Len(b_bits) = 3
    /\ \A i \in 1..3 : a_bits[i] \in {0, 1} /\ b_bits[i] \in {0, 1}

Labels(n) == {wires[n].labels[0], wires[n].labels[1]}

\* C1: once evaluate() has returned a bit list for operands A and B, the four
\* full-sum wires decode to A + B (4 bits, LSB first) and the returned result
\* is (A + B) >> 1 (3 bits, LSB first).
C1_AdderCorrect ==
    (pc = 0 /\ output # NoOutput) =>
        LET sum == bits_to_int(a_bits) + bits_to_int(b_bits)
        IN  /\ decode(wires, full_sum_wires) = ToBits(sum, 4)
            /\ output = ToBits(sum \div 2, 3)

\* C2: after Gate.evaluate was called with input_wire1.labels[a] and
\* input_wire2.labels[b], it has returned output_wire.labels[func(a, b)] and
\* recorded that label as the output wire's evaluated_label.
C2_GarblingCorrect ==
    label_a # None =>
        \A a \in {0, 1}, b \in {0, 1} :
            (label_a = wires["in1"].labels[a] /\ label_b = wires["in2"].labels[b])
                => /\ ret = wires["out"].labels[func(gates[1].func, a, b)]
                   /\ wires["out"].evaluated_label = ret

\* C3: a Gate.evaluate call whose label_a is not a label of input_wire1, or
\* whose label_b is not a label of input_wire2, returns the failure value and
\* leaves every wire, the output wire's evaluated_label included, unchanged.
C3_MismatchOnForeignLabels ==
    [][(label_a' \notin Labels("in1") \/ label_b' \notin Labels("in2"))
          => (ret' = None /\ wires' = wires)]_vars

C3_Witness ==
    /\ label_a # None
    /\ (label_a \notin Labels("in1") \/ label_b \notin Labels("in2"))
    /\ ret = None
    /\ wires["out"].evaluated_label # None

C5_InvalidLengthRejected ==
    [][(nbuilt' = nbuilt + 1 /\ (Len(a_bits') # 3 \/ Len(b_bits') # 3))
          => /\ error' = "ValueError"
             /\ wires' = EmptyWires
             /\ gates' = <<>>
             /\ rng' = rng
             /\ gate_id_counter' = gate_id_counter
             /\ issued' = issued]_vars

C5_Witness ==
    /\ error = "ValueError"
    /\ nbuilt = 2
    /\ gate_id_counter = 12
    /\ wires = EmptyWires

\* C6: the two labels of every wire of the constructed circuit are distinct.
C6_LabelsDistinct ==
    \A n \in DOMAIN wires : wires[n].labels[0] # wires[n].labels[1]

\* C7: the gate ids handed out over the life of the process are strictly
\* increasing, all below the counter, and the counter never decreases.
C7_GateIdsIncrease ==
    [][/\ gate_id_counter' >= gate_id_counter
       /\ \A i, j \in 1..Len(issued') : i < j => issued'[i] < issued'[j]
       /\ \A i \in 1..Len(issued') : issued'[i] < gate_id_counter'
       /\ \A i \in 1..Len(gates') :
             gates'[i].gate_id = issued'[Len(issued') - Len(gates') + i]]_vars

C7_Witness ==
    /\ nbuilt = 2
    /\ Len(issued) = 24
    /\ gate_id_counter = 24
    /\ gates[1].gate_id = 12

\* C8: the gate list is a topological order: every gate input is a circuit
\* input or the output of an earlier gate, and for a circuit built from two
\* 3-bit operands each gate is reached with both input labels set, so the
\* missing-input-label branch is never taken.
C8_TopologicalOrder ==
    /\ \A i \in 1..Len(gates) :
          \A w \in {gates[i].input_wire1, gates[i].input_wire2} :
              \/ \E k \in 1..Len(InputNames) : InputNames[k] = w
              \/ \E j \in 1..(i - 1) : gates[j].output_wire = w
    /\ InputsAreBits =>
          /\ failure # "MissingInputLabel"
          /\ pc \in 1..Len(gates) =>
                /\ wires[gate_at(gates, pc).input_wire1].evaluated_label # None
                /\ wires[gate_at(gates, pc).input_wire2].evaluated_label # None

C8_Witness ==
    /\ InputsAreBits
    /\ nevals = 1
    /\ pc = 13
    /\ failure = "none"

\* C9 as stated: an evaluated_label that is set is never written with
\* another value, nor reset.
C9_SetExactlyOnce ==
    [][\A n \in DOMAIN wires :
          wires[n].evaluated_label # None
              => wires'[n].evaluated_label = wires[n].evaluated_label]_vars

\* C9 as amended: Gate.evaluate never resets an evaluated_label to unset; a
\* failing call leaves every evaluated_label unchanged, and the only label a
\* successful call changes is its output wire's, which becomes the label the
\* call returns, also when one was already set.
C9_NeverUnset ==
    [][\A n \in DOMAIN wires :
          /\ wires[n].evaluated_label # None => wires'[n].evaluated_label # None
          /\ wires'[n].evaluated_label # wires[n].evaluated_label
                => /\ n = gates[1].output_wire
                   /\ ret' # None
                   /\ wires'[n].evaluated_label = ret']_vars

C9_Witness ==
    /\ ret # None
    /\ wires["out"].evaluated_label = ret
    /\ label_a \in Labels("in1")
    /\ label_b \in Labels("in2")

\* C10: a step of evaluate() leaves every wire's labels, name and value,
\* every gate (table, order, id, wiring), the counter and the generator
\* unchanged; the only evaluated_label it may change is that of the output
\* wire of the gate being evaluated.
C10_EvaluationFrame ==
    [][/\ gates' = gates
       /\ gate_id_counter' = gate_id_counter
       /\ rng' = rng
       /\ DOMAIN wires' = DOMAIN wires
       /\ \A n \in DOMAIN wires :
             /\ wires'[n].labels = wires[n].labels
             /\ wires'[n].name = wires[n].name
             /\ wires'[n].value = wires[n].value
             /\ wires'[n].evaluated_label # wires[n].evaluated_label
                   => /\ pc \in 1..Len(gates)
                      /\ n = gate_at(gates, pc).output_wire]_vars

C10_Witness ==
    /\ nevals = 1
    /\ pc = 5
    /\ wires["sum1"].evaluated_label # None
    /\ wires["and1"].evaluated_label = None

====
